---- MODULE Spec2Model ----
(***************************************************************************)
(* Library Management System (src/Python OOP/lib_app_final.py).            *)
(*                                                                         *)
(* The Librarian owns two lists, books and members, loads them from the    *)
(* CSV file when it is constructed and rewrites the file after every       *)
(* successful mutation.                                                    *)
(*                                                                         *)
(* Strings are sequences of one-character strings, so that ";".join,       *)
(* str.split(';') and str.lower() are computed and not assumed.  The csv   *)
(* module's quoting is lossless for rows of strings (a blank line reads    *)
(* back as the empty row), so the file is the sequence of its rows, each   *)
(* row the sequence of its fields, with a flag for a file that is missing. *)
(*                                                                         *)
(* A Book has no __eq__, so "book in member.borrowed_books" and            *)
(* list.remove compare object identity.  Books are only ever appended to   *)
(* self.books, so a Book object is identified by its position in books,    *)
(* and borrowed_books is a sequence of such positions.                     *)
(* Member._borrowed_books_isbns is overwritten before its only read        *)
(* (to_csv_row) and is not kept as state.                                  *)
(*                                                                         *)
(* A run starts from some content of data.csv.  Writes of the file can     *)
(* fail (at most MaxSaveFailures in a row) in the runs that start from no  *)
(* file or from a file of at most one row; the runs that start from the    *)
(* longer files explore what load makes of them, with writes that succeed. *)
(*                                                                         *)
(* Four specifications share the variables and the actions:                *)
(*   Spec            load from any modelled file, then the four operations *)
(*   SpecEmptyStore  the runs from a missing file with writes that         *)
(*                   succeed, also with an isbn that is the empty string   *)
(*   SpecLoad        load alone, from files with short rows, rows of an    *)
(*                   unknown type, blank lines and dangling isbns          *)
(*   SpecRoundTrip   to_csv_row, _load_data and to_csv_row again on        *)
(*                   records with plain and unusual field values           *)
(***************************************************************************)
EXTENDS Integers, Sequences, FiniteSets, TLC

\* ---------------------------------------------------------------- bounds
MaxBooks == 2         \* add_book is offered while Len(books) < MaxBooks
MaxMembers == 2       \* add_member is offered while Len(members) < MaxMembers
MaxRows == 2          \* data rows (after the header) of the initial file
MaxSaveFailures == 1  \* failing writes of data.csv in a row

\* --------------------------------------------------------------- strings
BOOK == <<"B", "O", "O", "K">>
FICTION_BOOK == <<"F", "I", "C", "T", "I", "O", "N", "_", "B", "O", "O", "K">>
NON_FICTION_BOOK == <<"N", "O", "N", "_">> \o FICTION_BOOK
MEMBER == <<"M", "E", "M", "B", "E", "R">>
EmptyStr == <<>>

HEADERS ==
  << <<"T", "Y", "P", "E">>,
     <<"I", "D", "/", "I", "S", "B", "N">>,
     <<"T", "I", "T", "L", "E", "/", "N", "A", "M", "E">>,
     <<"A", "U", "T", "H", "O", "R", "/", "B", "O", "R", "R", "O", "W", "E", "D",
       "_", "I", "S", "B", "N", "s">>,
     <<"I", "S", "_", "B", "O", "R", "R", "O", "W", "E", "D">>,
     <<"G", "E", "N", "R", "E">> >>

UpperCase == <<"A", "B", "C", "D", "E", "F", "G", "H", "I", "J", "K", "L", "M",
               "N", "O", "P", "Q", "R", "S", "T", "U", "V", "W", "X", "Y", "Z">>
LowerCase == <<"a", "b", "c", "d", "e", "f", "g", "h", "i", "j", "k", "l", "m",
               "n", "o", "p", "q", "r", "s", "t", "u", "v", "w", "x", "y", "z">>

\* str.lower()
LowerChar(c) ==
  IF \E i \in 1..Len(UpperCase) : UpperCase[i] = c
  THEN LowerCase[CHOOSE i \in 1..Len(UpperCase) : UpperCase[i] = c]
  ELSE c
Lower(s) == [i \in 1..Len(s) |-> LowerChar(s[i])]

\* str(bool)
StrBool(b) == IF b THEN <<"T", "r", "u", "e">> ELSE <<"F", "a", "l", "s", "e">>

\* is_borrowed_str.lower() == 'true'
ParseBool(s) == Lower(s) = <<"t", "r", "u", "e">>

\* ";".join(list)
RECURSIVE Join(_)
Join(list) ==
  IF list = <<>> THEN EmptyStr
  ELSE IF Len(list) = 1 THEN list[1]
  ELSE list[1] \o <<";">> \o Join(Tail(list))

\* s.split(';')
RECURSIVE Split(_)
Split(s) ==
  IF \E i \in 1..Len(s) : s[i] = ";"
  THEN LET i == CHOOSE k \in 1..Len(s) :
                  s[k] = ";" /\ \A j \in 1..(k - 1) : s[j] # ";"
       IN  <<SubSeq(s, 1, i - 1)>> \o Split(SubSeq(s, i + 1, Len(s)))
  ELSE <<s>>

\* borrowed_isbns_str.split(';') if borrowed_isbns_str else []
SplitIsbns(s) == IF s = EmptyStr THEN <<>> ELSE Split(s)

Range(f) == {f[i] : i \in DOMAIN f}


\* ------------------------------------------------------------------ state
VARIABLES
  books,      \* Librarian.books: sequence of Book records
  members,    \* Librarian.members: sequence of Member records
  file,       \* data.csv: whether it exists, and the sequence of its rows
  pc,         \* "start" before Librarian.__init__ has run, "ready" after
  last,       \* the last call: operation, arguments, reported outcome
  failures,   \* how many writes of data.csv have failed in a row
  faulty,     \* whether writes of data.csv can fail in this run
  warnings,   \* the "not found during load" warnings printed by _load_data
  isbn_inputs, \* the isbns the callers of this run pass
  trail       \* books and members as they were before the last borrow_book
              \* succeeded, kept over a return_book of the same arguments

vars == <<books, members, file, pc, last, failures, faulty, warnings, isbn_inputs, trail>>

Absent == [exists |-> FALSE, rows |-> <<>>]
File(rows) == [exists |-> TRUE, rows |-> rows]

\* ------------------------------------------------------ inputs of the model
Isbns == {<<"1">>, <<"2">>}
OddIsbns == {<<"1">>, EmptyStr}
MemberIds == {<<"a">>, <<"b">>}
Title == <<"t">>
Author == <<"u">>
Name == <<"n">>
Genre == <<"g">>
Subject == <<"s">>

\* ---------------------------------------------------------------- records
\* Book.__init__ / FictionBook.__init__ / NonFictionBook.__init__
\* (extra is genre for a FictionBook, subject_area for a NonFictionBook and
\* does not exist for a plain Book, where it is kept as the empty string)
Book(title, author, isbn, is_borrowed) ==
  [kind |-> BOOK, title |-> title, author |-> author, isbn |-> isbn,
   is_borrowed |-> is_borrowed, extra |-> EmptyStr]
FictionBook(title, author, isbn, genre, is_borrowed) ==
  [kind |-> FICTION_BOOK, title |-> title, author |-> author, isbn |-> isbn,
   is_borrowed |-> is_borrowed, extra |-> genre]
NonFictionBook(title, author, isbn, subject_area, is_borrowed) ==
  [kind |-> NON_FICTION_BOOK, title |-> title, author |-> author, isbn |-> isbn,
   is_borrowed |-> is_borrowed, extra |-> subject_area]

\* Member.__init__: borrowed_books starts empty
Member(member_id, name) ==
  [member_id |-> member_id, name |-> name, borrowed_books |-> <<>>]

\* Book.to_csv_row / FictionBook.to_csv_row / NonFictionBook.to_csv_row
BookToCsvRow(b) ==
  IF b.kind = BOOK
  THEN <<BOOK, b.isbn, b.title, b.author, StrBool(b.is_borrowed), EmptyStr>>
  ELSE IF b.kind = FICTION_BOOK
  THEN <<FICTION_BOOK, b.isbn, b.title, b.author, StrBool(b.is_borrowed), b.extra>>
  ELSE <<NON_FICTION_BOOK, b.isbn, b.title, b.author, StrBool(b.is_borrowed), b.extra>>

\* Member.to_csv_row: the isbn_inputs of the borrowed Book objects, joined by ";"
MemberToCsvRow(bs, m) ==
  <<MEMBER, m.member_id, m.name,
    Join([k \in 1..Len(m.borrowed_books) |-> bs[m.borrowed_books[k]].isbn])>>

\* --------------------------------------------------------------- lookups
\* Librarian.find_book: the first book with that isbn; 0 stands for None
FindBook(bs, isbn) ==
  LET hits == {i \in 1..Len(bs) : bs[i].isbn = isbn}
  IN  IF hits = {} THEN 0 ELSE CHOOSE i \in hits : \A j \in hits : i <= j

\* Librarian.find_member: the first member with that id; 0 stands for None
FindMember(ms, member_id) ==
  LET hits == {i \in 1..Len(ms) : ms[i].member_id = member_id}
  IN  IF hits = {} THEN 0 ELSE CHOOSE i \in hits : \A j \in hits : i <= j

\* ------------------------------------------------------------------- save
\* What _save_data writes: header, every book's row, every member's row
Render(bs, ms) ==
  <<HEADERS>> \o [i \in 1..Len(bs) |-> BookToCsvRow(bs[i])]
              \o [i \in 1..Len(ms) |-> MemberToCsvRow(bs, ms[i])]

SaveResults == {"ok", "open_failed", "write_failed"}

\* A faulty _save_data: a failed write puts the list back as it was
RestoredOnFailure(res, before, after) == IF res = "ok" THEN after ELSE before

\* A list of the Librarian after _save_data has returned: the handler of a
\* failed write only prints, the list stays as the operation left it
AfterSaveData(res, before, after) == after

\* The results the environment may still give a write
SaveChoices(n) == IF faulty /\ n < MaxSaveFailures THEN SaveResults ELSE {"ok"}

\* A faulty _save_data: the file is opened for appending
FileAfterSaveAppend(old, bs, ms, res) ==
  IF res = "ok" THEN {File(old.rows \o Render(bs, ms))}
  ELSE IF res = "open_failed" THEN {old}
  ELSE {File(old.rows \o SubSeq(Render(bs, ms), 1, k)) : k \in 0..(Len(Render(bs, ms)) - 1)}

\* Librarian._save_data.  open(..., 'w') may fail and leave the file as it
\* was; a write may fail after open truncated the file, leaving any proper
\* prefix of the new content.  Either failure is caught and printed.
FileAfterSave(old, bs, ms, res) ==
  IF res = "ok" THEN {File(Render(bs, ms))}
  ELSE IF res = "open_failed" THEN {old}
  ELSE {File(SubSeq(Render(bs, ms), 1, k)) : k \in 0..(Len(Render(bs, ms)) - 1)}


\* ------------------------------------------------------------------- load
\* One iteration of "for row in reader" in _load_data, for a row with at
\* least one field.  acc holds books, members and member_borrowed_mapping
\* (a dict: a later row with the same member_id replaces the entry).
LoadRow(acc, row) ==
  LET row_type == row[1] IN
  IF row_type = BOOK /\ Len(row) >= 5
  THEN [acc EXCEPT !.books =
          Append(@, Book(row[3], row[4], row[2], ParseBool(row[5])))]
  ELSE IF row_type = FICTION_BOOK /\ Len(row) >= 6
  THEN [acc EXCEPT !.books =
          Append(@, FictionBook(row[3], row[4], row[2], row[6], ParseBool(row[5])))]
  ELSE IF row_type = NON_FICTION_BOOK /\ Len(row) >= 6
  THEN [acc EXCEPT !.books =
          Append(@, NonFictionBook(row[3], row[4], row[2], row[6], ParseBool(row[5])))]
  ELSE IF row_type = MEMBER /\ Len(row) >= 4
  THEN [acc EXCEPT
          !.members = Append(@, Member(row[2], row[3])),
          !.mapping = [id \in DOMAIN @ \cup {row[2]} |->
                         IF id = row[2] THEN SplitIsbns(row[4]) ELSE @[id]]]
  ELSE acc

\* The loop over the data rows.  row[0] of a row with no field (a blank
\* line) raises IndexError, which ends the loop with what was built so far.
RECURSIVE LoadRows(_, _)
LoadRows(rows, acc) ==
  IF rows = <<>> THEN acc
  ELSE IF Len(Head(rows)) = 0 THEN [acc EXCEPT !.error = TRUE]
  ELSE LoadRows(Tail(rows), LoadRow(acc, Head(rows)))

\* The isbn_inputs of a list that find_book resolves, as Book references, in order
RECURSIVE Resolve(_, _)
Resolve(bs, isbns) ==
  IF isbns = <<>> THEN <<>>
  ELSE IF FindBook(bs, Head(isbns)) # 0
  THEN <<FindBook(bs, Head(isbns))>> \o Resolve(bs, Tail(isbns))
  ELSE Resolve(bs, Tail(isbns))

\* The isbn_inputs of a list that find_book does not resolve, in order
RECURSIVE Unresolved(_, _)
Unresolved(bs, isbns) ==
  IF isbns = <<>> THEN <<>>
  ELSE IF FindBook(bs, Head(isbns)) = 0
  THEN <<Head(isbns)>> \o Unresolved(bs, Tail(isbns))
  ELSE Unresolved(bs, Tail(isbns))

\* "connect members with their borrowed Book objects": every member gets
\* the books of member_borrowed_mapping[member.member_id]
Link(bs, ms, mapping) ==
  [i \in 1..Len(ms) |->
     [ms[i] EXCEPT !.borrowed_books = Resolve(bs, mapping[ms[i].member_id])]]

\* The warnings of the linking loop: <<member.name, isbn>>, in print order
RECURSIVE LinkWarnings(_, _, _)
LinkWarnings(bs, ms, mapping) ==
  IF ms = <<>> THEN <<>>
  ELSE LET un == Unresolved(bs, mapping[Head(ms).member_id])
       IN  [k \in 1..Len(un) |-> <<Head(ms).name, un[k]>>]
           \o LinkWarnings(bs, Tail(ms), mapping)

\* Librarian._load_data on an existing file: next(reader) skips the first
\* row (StopIteration on an empty file), then the rows, then the linking,
\* which is skipped when a row raised.
LoadData(rows) ==
  IF rows = <<>>
  THEN [books |-> <<>>, members |-> <<>>, warnings |-> <<>>, outcome |-> "error"]
  ELSE LET acc == LoadRows(Tail(rows),
                           [books |-> <<>>, members |-> <<>>, mapping |-> <<>>,
                            error |-> FALSE])
       IN  IF acc.error
           THEN [books |-> acc.books, members |-> acc.members,
                 warnings |-> <<>>, outcome |-> "error"]
           ELSE [books |-> acc.books,
                 members |-> Link(acc.books, acc.members, acc.mapping),
                 warnings |-> LinkWarnings(acc.books, acc.members, acc.mapping),
                 outcome |-> "loaded"]


\* ---------------------------------------------------- the persisted files
SeqUpTo(S, n) == UNION {[1..k -> S] : k \in 0..n}

\* Data rows the initial file is built from: well-formed rows (with spellings
\* of the flag that str.lower accepts), two book rows with the same isbn,
\* member rows whose lists name one book or the same book twice, and a
\* blank line.
FileRows ==
  { <<BOOK, <<"1">>, Title, Author, <<"F", "a", "l", "s", "e">>, EmptyStr>>,
    <<BOOK, <<"1">>, Title, Author, <<"T", "R", "U", "E">>>>,
    <<FICTION_BOOK, <<"2">>, Title, Author, <<"T", "r", "u", "e">>, Genre>>,
    <<MEMBER, <<"a">>, Name, <<"1">>>>,
    <<MEMBER, <<"b">>, Name, <<"1", ";", "1">>>>,
    <<>> }

\* A data row in the place of the header: the first row is skipped whatever
\* it holds
NotAHeader == <<BOOK, <<"2">>, Title, Author, <<"t", "r", "u", "e">>, EmptyStr>>

InitFiles ==
  {Absent, File(<<>>)}
    \cup {File(<<HEADERS>> \o rows) : rows \in SeqUpTo(FileRows, MaxRows)}
    \cup {File(<<NotAHeader>> \o rows) : rows \in SeqUpTo(FileRows, 1)}

\* Books and members the callers construct
NewBooks ==
  {Book(Title, Author, i, b) : i \in isbn_inputs, b \in BOOLEAN}
    \cup {FictionBook(Title, Author, <<"1">>, Genre, FALSE),
          NonFictionBook(Title, Author, <<"2">>, Subject, FALSE)}
NewMembers == {Member(id, Name) : id \in MemberIds}

NoTrail == [op |-> "none", books |-> <<>>, members |-> <<>>]
Trail(op, bs, ms) == [op |-> op, books |-> bs, members |-> ms]

Call(op, member_id, isbn, outcome, step, save) ==
  [op |-> op, member_id |-> member_id, isbn |-> isbn, outcome |-> outcome,
   step |-> step, save |-> save]

\* ------------------------------------------------------------------- Init
Init ==
  /\ books = <<>>
  /\ members = <<>>
  /\ file \in InitFiles
  /\ pc = "start"
  /\ last = Call("none", EmptyStr, EmptyStr, "none", 0, "none")
  /\ failures = 0
  /\ faulty \in (IF Len(file.rows) <= 1 THEN BOOLEAN ELSE {FALSE})
  /\ warnings = <<>>
  /\ isbn_inputs = Isbns
  /\ trail = NoTrail

\* ---------------------------------------------------------------- actions
\* A faulty _write_headers_to_csv: the file is created without the header
WriteNoHeaders(old, res) == IF res = "open_failed" THEN old ELSE File(<<>>)

\* Librarian._write_headers_to_csv: the file it leaves.  open(..., 'w') may
\* fail and leave no file; the write of the header may fail after open has
\* created the file.
WriteHeadersToCsv(old, res) ==
  IF res = "ok" THEN File(<<HEADERS>>)
  ELSE IF res = "open_failed" THEN old
  ELSE File(<<>>)

\* Librarian.__init__ -> _load_data.  A missing file gives an empty library
\* and _write_headers_to_csv, whose failure is raised out of the handler of
\* FileNotFoundError and so out of __init__: no Librarian is constructed.
Load ==
  /\ pc = "start"
  /\ faulty' = faulty
  /\ isbn_inputs' = isbn_inputs
  /\ trail' = NoTrail
  /\ IF ~file.exists
     THEN /\ books' = <<>>
          /\ members' = <<>>
          /\ warnings' = <<>>
          /\ \E res \in SaveChoices(failures) :
               /\ file' = WriteHeadersToCsv(file, res)
               /\ pc' = IF res = "ok" THEN "ready" ELSE "raised"
               /\ last' = Call("load", EmptyStr, EmptyStr, "FileNotFoundError", 0, res)
               /\ failures' = IF res = "ok" THEN 0 ELSE failures + 1
     ELSE LET r == LoadData(file.rows) IN
          /\ books' = r.books
          /\ members' = r.members
          /\ warnings' = r.warnings
          /\ file' = file
          /\ failures' = failures
          /\ pc' = "ready"
          /\ last' = Call("load", EmptyStr, EmptyStr, r.outcome, 0, "none")

\* A faulty add_book: the duplicate check is missing
IsbnExistsNever(bs, isbn) == FALSE

\* "any(b.isbn == book.isbn for b in self.books)"
IsbnExists(bs, isbn) == \E i \in 1..Len(bs) : bs[i].isbn = isbn

\* A faulty add_book: the book is inserted at the front
PrependBook(bs, book) == <<book>> \o bs

\* "self.books.append(book)"
AppendBook(bs, book) == Append(bs, book)

\* Librarian.add_book
AddBook ==
  /\ pc = "ready"
  /\ isbn_inputs' = isbn_inputs
  /\ trail' = NoTrail
  /\ \E book \in NewBooks :
       IF IsbnExists(books, book.isbn)
       THEN /\ last' = Call("add_book", EmptyStr, book.isbn, "Duplicate", 0, "none")
            /\ UNCHANGED <<books, members, file, pc, failures, faulty, warnings>>
       ELSE /\ Len(books) < MaxBooks
            /\ \E res \in SaveChoices(failures) :
                 /\ books' = AfterSaveData(res, books, AppendBook(books, book))
                 /\ file' \in FileAfterSave(file, AppendBook(books, book), members, res)
                 /\ last' = Call("add_book", EmptyStr, book.isbn, "ok", 0, res)
                 /\ failures' = IF res = "ok" THEN 0 ELSE failures + 1
            /\ UNCHANGED <<members, pc, faulty, warnings>>

\* A faulty add_member: the duplicate check is missing
MemberIdExistsNever(ms, member_id) == FALSE

\* "any(m.member_id == member.member_id for m in self.members)"
MemberIdExists(ms, member_id) == \E i \in 1..Len(ms) : ms[i].member_id = member_id

\* Librarian.add_member
AddMember ==
  /\ pc = "ready"
  /\ isbn_inputs' = isbn_inputs
  /\ trail' = NoTrail
  /\ \E member \in NewMembers :
       IF MemberIdExists(members, member.member_id)
       THEN /\ last' = Call("add_member", member.member_id, EmptyStr, "Duplicate", 0, "none")
            /\ UNCHANGED <<books, members, file, pc, failures, faulty, warnings>>
       ELSE /\ Len(members) < MaxMembers
            /\ \E res \in SaveChoices(failures) :
                 /\ members' = AfterSaveData(res, members, Append(members, member))
                 /\ file' \in FileAfterSave(file, books, Append(members, member), res)
                 /\ last' = Call("add_member", member.member_id, EmptyStr, "ok", 0, res)
                 /\ failures' = IF res = "ok" THEN 0 ELSE failures + 1
            /\ UNCHANGED <<books, pc, faulty, warnings>>

\* A faulty borrow_book: the test of book.is_borrowed is missing
BorrowStepNoFlagCheck(bs, ms, member_id, isbn) ==
  LET m == FindMember(ms, member_id)
      b == FindBook(bs, isbn)
  IN  IF m = 0 THEN 1
      ELSE IF b = 0 THEN 2
      ELSE IF b \in Range(ms[m].borrowed_books) THEN 4
      ELSE 0

\* The raise statements of borrow_book, in order; step 0 is success
BorrowStep(bs, ms, member_id, isbn) ==
  LET m == FindMember(ms, member_id)
      b == FindBook(bs, isbn)
  IN  IF m = 0 THEN 1
      ELSE IF b = 0 THEN 2
      ELSE IF bs[b].is_borrowed THEN 3
      ELSE IF b \in Range(ms[m].borrowed_books) THEN 4
      ELSE 0

BorrowError(step) ==
  IF step = 1 THEN "MemberNotFoundException"
  ELSE IF step = 2 THEN "BookNotFoundException"
  ELSE IF step = 3 THEN "BookAlreadyBorrowedException"
  ELSE IF step = 4 THEN "BookAlreadyBorrowedException"
  ELSE "ok"

\* A faulty borrow_book: the flag is not set
BorrowUpdateNoFlag(bs, ms, m, b) ==
  [books |-> bs,
   members |-> [ms EXCEPT ![m].borrowed_books = Append(@, b)]]

\* "book.is_borrowed = True; member.borrowed_books.append(book)"
BorrowUpdate(bs, ms, m, b) ==
  [books |-> [bs EXCEPT ![b].is_borrowed = TRUE],
   members |-> [ms EXCEPT ![m].borrowed_books = Append(@, b)]]

\* Librarian.borrow_book
BorrowBook ==
  /\ pc = "ready"
  /\ isbn_inputs' = isbn_inputs
  /\ \E member_id \in MemberIds, isbn \in isbn_inputs :
       LET step == BorrowStep(books, members, member_id, isbn)
           m == FindMember(members, member_id)
           b == FindBook(books, isbn)
       IN  /\ trail' = IF step = 0 THEN Trail("borrowed", books, members) ELSE NoTrail
           /\ IF step # 0
               THEN /\ last' = Call("borrow_book", member_id, isbn, BorrowError(step), step, "none")
                    /\ UNCHANGED <<books, members, file, pc, failures, faulty, warnings>>
               ELSE /\ \E res \in SaveChoices(failures), u \in {BorrowUpdate(books, members, m, b)} :
                         /\ books' = AfterSaveData(res, books, u.books)
                         /\ members' = AfterSaveData(res, members, u.members)
                         /\ file' \in FileAfterSave(file, u.books, u.members, res)
                         /\ last' = Call("borrow_book", member_id, isbn, "ok", 0, res)
                         /\ failures' = IF res = "ok" THEN 0 ELSE failures + 1
                    /\ UNCHANGED <<pc, faulty, warnings>>

\* A faulty return_book: the member's list is tested before the flag
ReturnStepSwapped(bs, ms, member_id, isbn) ==
  LET m == FindMember(ms, member_id)
      b == FindBook(bs, isbn)
  IN  IF m = 0 THEN 1
      ELSE IF b = 0 THEN 2
      ELSE IF b \notin Range(ms[m].borrowed_books) THEN 4
      ELSE IF ~bs[b].is_borrowed THEN 3
      ELSE 0

\* A faulty return_book: the last test asks whether any member holds the book
ReturnStepAnyHolder(bs, ms, member_id, isbn) ==
  LET m == FindMember(ms, member_id)
      b == FindBook(bs, isbn)
  IN  IF m = 0 THEN 1
      ELSE IF b = 0 THEN 2
      ELSE IF ~bs[b].is_borrowed THEN 3
      ELSE IF \A k \in 1..Len(ms) : b \notin Range(ms[k].borrowed_books) THEN 4
      ELSE 0

\* The raise statements of return_book, in order; step 0 is success
ReturnStep(bs, ms, member_id, isbn) ==
  LET m == FindMember(ms, member_id)
      b == FindBook(bs, isbn)
  IN  IF m = 0 THEN 1
      ELSE IF b = 0 THEN 2
      ELSE IF ~bs[b].is_borrowed THEN 3
      ELSE IF b \notin Range(ms[m].borrowed_books) THEN 4
      ELSE 0

ReturnError(step) ==
  IF step = 1 THEN "MemberNotFoundException"
  ELSE IF step = 2 THEN "BookNotFoundException"
  ELSE IF step = 3 THEN "BookNotAvailableException"
  ELSE IF step = 4 THEN "BookNotBorrowedByMemberException"
  ELSE "ok"

\* list.remove(x): drops the first occurrence (x is in the list)
RemoveFirst(seq, x) ==
  LET i == CHOOSE k \in 1..Len(seq) : seq[k] = x /\ \A j \in 1..(k - 1) : seq[j] # x
  IN  SubSeq(seq, 1, i - 1) \o SubSeq(seq, i + 1, Len(seq))

\* A faulty return_book: the flag of the book is left set
ReturnUpdateKeepsFlag(bs, ms, m, b) ==
  [books |-> bs,
   members |-> IF b \in Range(ms[m].borrowed_books)
               THEN [ms EXCEPT ![m].borrowed_books = RemoveFirst(@, b)]
               ELSE ms,
   raised |-> b \notin Range(ms[m].borrowed_books)]

\* A faulty return_book: the book stays in the member's list
ReturnUpdateKeepsEntry(bs, ms, m, b) ==
  [books |-> [bs EXCEPT ![b].is_borrowed = FALSE],
   members |-> ms,
   raised |-> b \notin Range(ms[m].borrowed_books)]

\* "book.is_borrowed = False; member.borrowed_books.remove(book)".
\* list.remove raises ValueError for a book that is not in the list, after
\* the flag was reset; "except Exception" then reports an unexpected error.
ReturnUpdate(bs, ms, m, b) ==
  [books |-> [bs EXCEPT ![b].is_borrowed = FALSE],
   members |-> IF b \in Range(ms[m].borrowed_books)
               THEN [ms EXCEPT ![m].borrowed_books = RemoveFirst(@, b)]
               ELSE ms,
   raised |-> b \notin Range(ms[m].borrowed_books)]

\* Librarian.return_book
ReturnBook ==
  /\ pc = "ready"
  /\ isbn_inputs' = isbn_inputs
  /\ \E member_id \in MemberIds, isbn \in isbn_inputs :
       LET step == ReturnStep(books, members, member_id, isbn)
           m == FindMember(members, member_id)
           b == FindBook(books, isbn)
       IN  /\ trail' = IF /\ trail.op = "borrowed"
                          /\ last.member_id = member_id /\ last.isbn = isbn
                       THEN Trail("returned", trail.books, trail.members)
                       ELSE NoTrail
           /\ IF step # 0
               THEN /\ last' = Call("return_book", member_id, isbn, ReturnError(step), step, "none")
                    /\ UNCHANGED <<books, members, file, pc, failures, faulty, warnings>>
               ELSE /\ \E u \in {ReturnUpdate(books, members, m, b)} :
                         IF u.raised
                         THEN /\ books' = u.books
                              /\ members' = u.members
                              /\ last' = Call("return_book", member_id, isbn, "ValueError", 5, "none")
                              /\ UNCHANGED <<file, failures>>
                         ELSE \E res \in SaveChoices(failures) :
                                /\ books' = AfterSaveData(res, books, u.books)
                                /\ members' = AfterSaveData(res, members, u.members)
                                /\ file' \in FileAfterSave(file, u.books, u.members, res)
                                /\ last' = Call("return_book", member_id, isbn, "ok", 0, res)
                                /\ failures' = IF res = "ok" THEN 0 ELSE failures + 1
                    /\ UNCHANGED <<pc, faulty, warnings>>

Next == Load \/ AddBook \/ AddMember \/ BorrowBook \/ ReturnBook

Spec == Init /\ [][Next]_vars


\* ------------------------------------------------------------------ claims
\* The members whose borrowed_books contains the Book object at position i
Holders(i) == {m \in 1..Len(members) : i \in Range(members[m].borrowed_books)}

\* C1: Global borrow invariant.  In every state of the store (after load
\* from any file and after any calls), a book's is_borrowed flag is set
\* exactly when exactly one member's borrowed_books contains the book, and a
\* book whose flag is not set is in no member's borrowed_books.
C1_GlobalBorrowInvariant ==
  pc = "ready" =>
    \A i \in 1..Len(books) :
      /\ books[i].is_borrowed <=> Cardinality(Holders(i)) = 1
      /\ ~books[i].is_borrowed => Holders(i) = {}

\* C2: Member invariant.  In every state of the store, every book referenced
\* by a member's borrowed_books is a book of the catalog with is_borrowed
\* set, and no member's borrowed_books has two entries with the same isbn.
C2_MemberInvariant ==
  pc = "ready" =>
    \A m \in 1..Len(members) :
      LET bb == members[m].borrowed_books IN
      /\ \A k \in 1..Len(bb) : bb[k] \in 1..Len(books) /\ books[bb[k]].is_borrowed
      /\ \A k, l \in 1..Len(bb) :
           books[bb[k]].isbn = books[bb[l]].isbn => k = l

\* C3: Key uniqueness.  In every state of the store, no two books share an
\* isbn and no two members share a member_id.
C3_KeyUniqueness ==
  pc = "ready" =>
    /\ \A i, j \in 1..Len(books) : books[i].isbn = books[j].isbn => i = j
    /\ \A i, j \in 1..Len(members) :
         members[i].member_id = members[j].member_id => i = j


\* C4: Duplicate add is a no-op.  add_book with an isbn some stored book has
\* (add_member with a member_id some stored member has) reports the
\* duplicate and leaves books, members and the file as they were; otherwise
\* the record is appended at the end of its list, the other list is
\* unchanged and the file is rewritten: _save_data runs, and unless the
\* write fails the file is the header and the rows of the new state.
C4_DuplicateAddIsNoOp ==
  [][/\ last'.op = "add_book" =>
          IF \E i \in 1..Len(books) : books[i].isbn = last'.isbn
          THEN /\ last'.outcome = "Duplicate"
               /\ books' = books /\ members' = members /\ file' = file
          ELSE /\ last'.outcome = "ok"
               /\ Len(books') = Len(books) + 1
               /\ SubSeq(books', 1, Len(books)) = books
               /\ books'[Len(books')].isbn = last'.isbn
               /\ members' = members
               /\ last'.save \in SaveResults
               /\ last'.save = "ok" => file' = File(Render(books', members'))
     /\ last'.op = "add_member" =>
          IF \E i \in 1..Len(members) : members[i].member_id = last'.member_id
          THEN /\ last'.outcome = "Duplicate"
               /\ books' = books /\ members' = members /\ file' = file
          ELSE /\ last'.outcome = "ok"
               /\ Len(members') = Len(members) + 1
               /\ SubSeq(members', 1, Len(members)) = members
               /\ members'[Len(members')] = Member(last'.member_id, Name)
               /\ books' = books
               /\ last'.save \in SaveResults
               /\ last'.save = "ok" => file' = File(Render(books', members'))
    ]_vars

\* A duplicate add_book was reported while the file held something other
\* than the rows of the current state
C4_Witness ==
  /\ last.op = "add_book" /\ last.outcome = "Duplicate"
  /\ Len(books) = 2 /\ Len(members) >= 1
  /\ file # File(Render(books, members))

\* C5: Find after add, permanently.  After add_book succeeds, find_book of
\* the added isbn returns the added book (the last element); no call removes
\* or reorders books or changes a book's isbn, title, author or class, so a
\* book that find_book returns is returned by it after every later call; and
\* find_book returns None exactly when no stored book has the isbn.
C5_FindAfterAdd ==
  [][pc = "ready" =>
       /\ (last'.op = "add_book" /\ last'.outcome = "ok") =>
            /\ FindBook(books', last'.isbn) = Len(books')
            /\ Len(books') = Len(books) + 1
       /\ Len(books') >= Len(books)
       /\ \A i \in 1..Len(books) :
            /\ books'[i] = [books[i] EXCEPT !.is_borrowed = books'[i].is_borrowed]
            /\ FindBook(books, books[i].isbn) = i => FindBook(books', books[i].isbn) = i
       /\ \A isbn \in isbn_inputs : \A found \in {FindBook(books', isbn)} :
            /\ found = 0 <=> \A i \in 1..Len(books') : books'[i].isbn # isbn
            /\ found # 0 => books'[found].isbn = isbn
    ]_vars

\* A second book was added after the first one was borrowed, and both are
\* found at their places
C5_Witness ==
  /\ last.op = "add_book" /\ last.outcome = "ok"
  /\ Len(books) = 2
  /\ FindBook(books, last.isbn) = 2
  /\ FindBook(books, books[1].isbn) = 1
  /\ Holders(1) # {}

\* C6: Borrow postcondition.  After borrow_book(m, i) succeeds, the book
\* find_book(i) has is_borrowed set and is the last element of the
\* borrowed_books of find_member(m); every other book and every other
\* member's borrowed_books is unchanged.
C6_BorrowPostcondition ==
  [][(last'.op = "borrow_book" /\ last'.outcome = "ok") =>
       LET m == FindMember(members', last'.member_id)
           b == FindBook(books', last'.isbn)
       IN  /\ m # 0 /\ b # 0
           /\ books'[b].is_borrowed
           /\ members'[m].borrowed_books = Append(members[m].borrowed_books, b)
           /\ Len(books') = Len(books) /\ Len(members') = Len(members)
           /\ \A i \in 1..Len(books) :
                books'[i] = IF i = b THEN [books[i] EXCEPT !.is_borrowed = TRUE]
                            ELSE books[i]
           /\ \A k \in 1..Len(members) :
                /\ k # m => members'[k] = members[k]
                /\ members'[k].member_id = members[k].member_id
                /\ members'[k].name = members[k].name
    ]_vars

\* A borrow succeeded while another member held another book
C6_Witness ==
  /\ last.op = "borrow_book" /\ last.outcome = "ok"
  /\ LET m == FindMember(members, last.member_id)
         b == FindBook(books, last.isbn)
     IN  /\ Len(members[m].borrowed_books) >= 1
         /\ members[m].borrowed_books[Len(members[m].borrowed_books)] = b
         /\ \E k \in 1..Len(members), j \in 1..Len(books) :
              k # m /\ j # b /\ members[k].borrowed_books = <<j>> /\ books[j].is_borrowed


\* C7: State unchanged on failure.  Every borrow_book or return_book call
\* that reports a failure leaves books and members (every flag, every
\* borrowed_books list) as they were.  In particular borrow_book on a book
\* whose is_borrowed is set never succeeds and changes nothing, and for a
\* member that exists the failure is BookAlreadyBorrowedException.
C7_FailureLeavesState ==
  [][/\ (last'.op \in {"borrow_book", "return_book"} /\ last'.outcome # "ok") =>
          books' = books /\ members' = members
     /\ last'.op = "borrow_book" =>
          \A b \in 1..Len(books) :
            (b = FindBook(books, last'.isbn) /\ books[b].is_borrowed) =>
              /\ last'.outcome # "ok"
              /\ books' = books /\ members' = members
              /\ (\E m \in 1..Len(members) : members[m].member_id = last'.member_id)
                   => last'.outcome = "BookAlreadyBorrowedException"
    ]_vars

\* A member asked for a book that another member holds, and was refused
C7_Witness ==
  /\ last.op = "borrow_book" /\ last.outcome = "BookAlreadyBorrowedException"
  /\ LET m == FindMember(members, last.member_id)
         b == FindBook(books, last.isbn)
     IN  /\ books[b].is_borrowed
         /\ b \notin Range(members[m].borrowed_books)
         /\ \E k \in 1..Len(members) : k # m /\ b \in Range(members[k].borrowed_books)

\* The failure conditions of borrow_book(member_id, isbn) as the
\* specification lists them, each on its own
C8_BorrowConditions(bs, ms, member_id, isbn) ==
  LET m == FindMember(ms, member_id)
      b == FindBook(bs, isbn)
  IN  << \A i \in 1..Len(ms) : ms[i].member_id # member_id,
         \A i \in 1..Len(bs) : bs[i].isbn # isbn,
         b # 0 /\ bs[b].is_borrowed,
         b # 0 /\ m # 0 /\ b \in Range(ms[m].borrowed_books) >>

\* The failure conditions of return_book(member_id, isbn)
C8_ReturnConditions(bs, ms, member_id, isbn) ==
  LET m == FindMember(ms, member_id)
      b == FindBook(bs, isbn)
  IN  << \A i \in 1..Len(ms) : ms[i].member_id # member_id,
         \A i \in 1..Len(bs) : bs[i].isbn # isbn,
         b # 0 /\ ~bs[b].is_borrowed,
         b # 0 /\ m # 0 /\ b \notin Range(ms[m].borrowed_books) >>

\* The first condition that holds; 0 when none does
C8_First(conds) ==
  IF conds[1] THEN 1 ELSE IF conds[2] THEN 2
  ELSE IF conds[3] THEN 3 ELSE IF conds[4] THEN 4 ELSE 0

C8_BorrowOutcomes ==
  <<"MemberNotFoundException", "BookNotFoundException",
    "BookAlreadyBorrowedException", "BookAlreadyBorrowedException">>
C8_ReturnOutcomes ==
  <<"MemberNotFoundException", "BookNotFoundException",
    "BookNotAvailableException", "BookNotBorrowedByMemberException">>

C8_OutcomeIsFirst ==
  /\ last'.op = "borrow_book" =>
       \A k \in {C8_First(C8_BorrowConditions(books, members, last'.member_id, last'.isbn))} :
         /\ last'.step = k
         /\ last'.outcome = IF k = 0 THEN "ok" ELSE C8_BorrowOutcomes[k]
  /\ last'.op = "return_book" =>
       \A k \in {C8_First(C8_ReturnConditions(books, members, last'.member_id, last'.isbn))} :
         /\ last'.step = k
         /\ last'.outcome = IF k = 0 THEN "ok" ELSE C8_ReturnOutcomes[k]

C8_AtMostOneHolds ==
  /\ last'.op = "borrow_book" =>
       LET c == C8_BorrowConditions(books, members, last'.member_id, last'.isbn)
       IN  Cardinality({k \in 1..4 : c[k]}) <= 1
  /\ last'.op = "return_book" =>
       LET c == C8_ReturnConditions(books, members, last'.member_id, last'.isbn)
       IN  Cardinality({k \in 1..4 : c[k]}) <= 1

\* C8 (as amended): Check order.  borrow_book tests member absent, book
\* absent, is_borrowed set, book already in the member's list, in that
\* order; return_book tests member absent, book absent, is_borrowed not set,
\* book absent from the member's list.  Several conditions can hold at once;
\* the outcome reported is the first one in that order that holds, or
\* success if none holds.
C8_CheckOrder == [][C8_OutcomeIsFirst]_vars

\* C8 (as claimed): the same, and the failure conditions of one call are
\* mutually exclusive: at most one of them holds.
C8_ChecksMutuallyExclusive == [][C8_OutcomeIsFirst /\ C8_AtMostOneHolds]_vars

\* A borrow was refused at the is_borrowed test while the book was also in
\* the member's own list
C8_Witness ==
  /\ last.op = "borrow_book" /\ last.step = 3
  /\ C8_BorrowConditions(books, members, last.member_id, last.isbn)[3]
  /\ C8_BorrowConditions(books, members, last.member_id, last.isbn)[4]

\* C9: Only the holder can return.  For a member that exists and a book that
\* exists, is borrowed and is not in that member's borrowed_books,
\* return_book fails with BookNotBorrowedByMemberException and leaves every
\* flag and every list unchanged.
C9_OnlyHolderReturns ==
  [][last'.op = "return_book" =>
       \A m \in 1..Len(members), b \in 1..Len(books) :
         ( /\ m = FindMember(members, last'.member_id)
           /\ b = FindBook(books, last'.isbn)
           /\ b \notin Range(members[m].borrowed_books)
           /\ books[b].is_borrowed ) =>
             /\ last'.outcome = "BookNotBorrowedByMemberException"
             /\ books' = books /\ members' = members
    ]_vars

\* A member tried to return a book that another member holds
C9_Witness ==
  /\ last.op = "return_book" /\ last.outcome = "BookNotBorrowedByMemberException"
  /\ LET m == FindMember(members, last.member_id)
         b == FindBook(books, last.isbn)
     IN  /\ books[b].is_borrowed
         /\ \E k \in 1..Len(members) : k # m /\ b \in Range(members[k].borrowed_books)

\* C10: Return then re-borrow.  If return_book(m, i) succeeded, a
\* borrow_book(m, i) that follows immediately succeeds and leaves the book's
\* is_borrowed set and the book in the member's borrowed_books.
C10_ReturnThenBorrow ==
  [][( /\ last.op = "return_book" /\ last.outcome = "ok"
       /\ last'.op = "borrow_book"
       /\ last'.member_id = last.member_id /\ last'.isbn = last.isbn ) =>
       /\ last'.outcome = "ok"
       /\ books'[FindBook(books', last'.isbn)].is_borrowed
       /\ FindBook(books', last'.isbn)
            \in Range(members'[FindMember(members', last'.member_id)].borrowed_books)
    ]_vars

\* C11: Borrow then return is the identity.  When borrow_book(m, i) has
\* succeeded and return_book(m, i) is the next call, that call succeeds, the
\* book's is_borrowed is False again, and books and members (every flag,
\* every borrowed_books with its order) are what they were before the
\* borrow; a member whose list was empty has an empty list again.
C11_BorrowThenReturn ==
  trail.op = "returned" =>
    /\ last.op = "return_book" /\ last.outcome = "ok"
    /\ \A b \in {FindBook(books, last.isbn)} : b # 0 /\ ~books[b].is_borrowed
    /\ books = trail.books
    /\ members = trail.members
    /\ \A m \in {FindMember(members, last.member_id)} :
         m # 0 /\ (trail.members[m].borrowed_books = <<>>
                     => members[m].borrowed_books = <<>>)

\* A run from a missing file in which a member who held one book borrowed a
\* second one and returned it at once
C11_Witness ==
  /\ trail.op = "returned" /\ last.outcome = "ok"
  /\ isbn_inputs = OddIsbns
  /\ \E m \in 1..Len(members) :
       /\ members[m].member_id = last.member_id
       /\ Len(members[m].borrowed_books) = 1

\* C12: Persist after every successful mutation.  Every successful add_book,
\* add_member, borrow_book or return_book runs _save_data, and when that
\* write does not fail the file is exactly: the header row, then the row of
\* every book of books in order, then the row of every member of members in
\* order, all of the state after the call, and nothing else.
C12_Mutations == {"add_book", "add_member", "borrow_book", "return_book"}

C12_PersistAfterMutation ==
  (last.op \in C12_Mutations /\ last.outcome = "ok") =>
    /\ last.save \in SaveResults
    /\ last.save = "ok" =>
         /\ file.exists
         /\ Len(file.rows) = 1 + Len(books) + Len(members)
         /\ file.rows[1] = HEADERS
         /\ \A i \in 1..Len(books) : file.rows[1 + i] = BookToCsvRow(books[i])
         /\ \A j \in 1..Len(members) :
              file.rows[1 + Len(books) + j] = MemberToCsvRow(books, members[j])

\* A successful call whose save wrote the header, the rows of two books and
\* the row of one member who holds a book
C12_Witness ==
  /\ last.op \in C12_Mutations /\ last.outcome = "ok" /\ last.save = "ok"
  /\ Len(books) = 2 /\ Len(members) = 1
  /\ members[1].borrowed_books # <<>>
  /\ Len(file.rows) = 4

\* ------------------------------------------------- the round trip of records
\* Records are serialized with to_csv_row, the rows are parsed by _load_data,
\* and the parsed records are serialized again.  The records are books with
\* plain and with unusual field values, and a member who holds them.
MaxHeld == 2          \* books of a round trip (and held by its member)

RecordIsbns == {<<"1">>, EmptyStr, <<"1", ";", "2">>}

RecordBooks ==
  {Book(Title, Author, i, b) : i \in RecordIsbns, b \in BOOLEAN}
    \cup {FictionBook(Title, Author, i, Genre, b) : i \in RecordIsbns, b \in BOOLEAN}
    \cup {NonFictionBook(Title, Author, i, Subject, b) : i \in RecordIsbns, b \in BOOLEAN}
    \cup {Book(<<";">>, EmptyStr, <<"1">>, FALSE),
          FictionBook(EmptyStr, <<",">>, <<"1">>, EmptyStr, TRUE)}

\* No member, or one member whose borrowed_books are the books, in order
RecordMembers(bs) ==
  {<<>>} \cup {<<[Member(id, Name) EXCEPT !.borrowed_books = [k \in 1..Len(bs) |-> k]]>> :
                 id \in {<<"a">>, EmptyStr}}

InitRoundTrip ==
  /\ books \in SeqUpTo(RecordBooks, MaxHeld)
  /\ members \in RecordMembers(books)
  /\ file = Absent
  /\ pc = "record"
  /\ last = Call("none", EmptyStr, EmptyStr, "none", 0, "none")
  /\ failures = 0
  /\ faulty = FALSE
  /\ warnings = <<>>
  /\ isbn_inputs = RecordIsbns
  /\ trail = Trail("record", books, members)

\* to_csv_row of every record, written under the header as _save_data does
ToCsvRows ==
  /\ pc = "record"
  /\ file' = File(Render(books, members))
  /\ pc' = "rows"
  /\ last' = Call("to_csv_row", EmptyStr, EmptyStr, "ok", 0, "none")
  /\ UNCHANGED <<books, members, failures, faulty, warnings, isbn_inputs, trail>>

\* The rows are parsed by _load_data
ParseRows ==
  /\ pc = "rows"
  /\ LET r == LoadData(file.rows) IN
       /\ books' = r.books
       /\ members' = r.members
       /\ warnings' = r.warnings
       /\ last' = Call("load", EmptyStr, EmptyStr, r.outcome, 0, "none")
  /\ pc' = "parsed"
  /\ UNCHANGED <<file, failures, faulty, isbn_inputs, trail>>

\* to_csv_row of every parsed record, compared with the rows that were parsed
ToCsvRowsAgain ==
  /\ pc = "parsed"
  /\ file' = File(Render(books, members))
  /\ pc' = "again"
  /\ last' = Call("to_csv_row", EmptyStr, EmptyStr,
                  IF Render(books, members) = file.rows THEN "identical" ELSE "different",
                  0, "none")
  /\ UNCHANGED <<books, members, failures, faulty, warnings, isbn_inputs, trail>>

NextRoundTrip == ToCsvRows \/ ParseRows \/ ToCsvRowsAgain

SpecRoundTrip == InitRoundTrip /\ [][NextRoundTrip]_vars

\* The isbns of the books a member holds, in order
BorrowedIsbns(bs, m) == [k \in 1..Len(m.borrowed_books) |-> bs[m.borrowed_books[k]].isbn]

\* C13: Record round-trip.  For every Book, FictionBook, NonFictionBook or
\* Member, with any strings as field values, parsing the row that to_csv_row
\* gives yields an equal record (a book of the same class with the same
\* isbn, title, author, is_borrowed and genre or subject_area; a member with
\* the same member_id, name and sequence of borrowed isbns), and to_csv_row
\* of the parsed record gives the same row again.
C13_RecordRoundTrip ==
  /\ pc \in {"parsed", "again"} =>
       /\ books = trail.books
       /\ Len(members) = Len(trail.members)
       /\ \A j \in 1..Len(members) :
            /\ members[j].member_id = trail.members[j].member_id
            /\ members[j].name = trail.members[j].name
            /\ BorrowedIsbns(books, members[j]) = BorrowedIsbns(trail.books, trail.members[j])
  /\ pc = "again" => last.outcome = "identical"

\* The part of C13 about books: every book comes back equal
C13_BooksRoundTrip ==
  /\ pc \in {"parsed", "again"} => books = trail.books
  /\ (pc = "again" /\ members = <<>>) => last.outcome = "identical"

\* The part of C13 about members whose books have isbns that are not empty
\* and hold no ";"
C13_PlainIsbns == \A i \in 1..Len(trail.books) : trail.books[i].isbn = <<"1">>

C13_MembersRoundTripPlainIsbns == C13_PlainIsbns => C13_RecordRoundTrip

\* ---------------------------------------------------- loading of any file
\* Librarian.__init__ without a file, on an empty file, and on files built
\* from well-formed rows, rows with fewer fields than their type needs, a row
\* with an unknown type, a blank line, and member rows that list an isbn no
\* book row has.
MaxLoadRows == 3      \* data rows of a file of SpecLoad

LoadFileRows ==
  { <<BOOK, <<"1">>, Title, Author, <<"F", "a", "l", "s", "e">>, EmptyStr>>,
    <<FICTION_BOOK, <<"2">>, Title, Author, <<"T", "r", "u", "e">>, Genre>>,
    <<NON_FICTION_BOOK, <<"2">>, Title, Author, <<"f", "a", "l", "s", "e">>, Subject>>,
    <<MEMBER, <<"a">>, Name, <<"1", ";", "9">>>>,
    <<MEMBER, <<"a">>, Name, EmptyStr>>,
    <<MEMBER, <<"b">>, <<"o">>, <<"9">>>>,
    <<BOOK, <<"1">>, Title, Author>>,
    <<FICTION_BOOK, <<"2">>, Title, Author, <<"T", "r", "u", "e">>>>,
    <<NON_FICTION_BOOK, <<"2">>, Title, Author, <<"T", "r", "u", "e">>>>,
    <<MEMBER, <<"b">>, Name>>,
    <<MEMBER>>,
    <<<<"D", "V", "D">>, <<"1">>, Title, Author, <<"T", "r", "u", "e">>, Genre>>,
    <<>> }

InitLoad ==
  /\ books = <<>>
  /\ members = <<>>
  /\ file \in {Absent, File(<<>>)}
               \cup {File(<<HEADERS>> \o rows) : rows \in SeqUpTo(LoadFileRows, MaxLoadRows)}
  /\ pc = "start"
  /\ last = Call("none", EmptyStr, EmptyStr, "none", 0, "none")
  /\ failures = 0
  /\ faulty \in (IF file.exists THEN {FALSE} ELSE BOOLEAN)
  /\ warnings = <<>>
  /\ isbn_inputs = Isbns
  /\ trail = NoTrail

NextLoad == Load

SpecLoad == InitLoad /\ [][NextLoad]_vars

\* What the file format says of a row: the row of a book, the row of a member
IsBookRow(row) ==
  /\ Len(row) >= 1
  /\ \/ row[1] = BOOK /\ Len(row) >= 5
     \/ row[1] \in {FICTION_BOOK, NON_FICTION_BOOK} /\ Len(row) >= 6
IsMemberRow(row) == Len(row) >= 4 /\ row[1] = MEMBER

\* Some book row of the file carries the isbn
Carried(rows, isbn) == \E i \in 2..Len(rows) : IsBookRow(rows[i]) /\ rows[i][2] = isbn

\* The isbns of a list that some book row carries, in order
RECURSIVE CarriedOnly(_, _)
CarriedOnly(rows, list) ==
  IF list = <<>> THEN <<>>
  ELSE IF Carried(rows, Head(list))
  THEN <<Head(list)>> \o CarriedOnly(rows, Tail(list))
  ELSE CarriedOnly(rows, Tail(list))

\* The position in members of the member built from row i
MemberOfRow(rows, i) == Cardinality({j \in 2..i : IsMemberRow(rows[j])})

\* C14: Dangling reference on load.  When a member row of the file lists an
\* isbn that no book row carries, load succeeds with every book row and
\* every member row turned into a record, prints a warning for that isbn,
\* and the member of that row holds, in the order of the row, exactly the
\* listed isbns that some book row carries.
C14_DanglingOnLoad ==
  (pc = "ready" /\ last.op = "load" /\ file.exists) =>
    \A i \in 2..Len(file.rows) :
      \A row \in {file.rows[i]} :
        (IsMemberRow(row) /\ \E k \in DOMAIN SplitIsbns(row[4]) :
                               ~Carried(file.rows, SplitIsbns(row[4])[k])) =>
          /\ last.outcome = "loaded"
          /\ Len(books) = Cardinality({j \in 2..Len(file.rows) : IsBookRow(file.rows[j])})
          /\ Len(members) = Cardinality({j \in 2..Len(file.rows) : IsMemberRow(file.rows[j])})
          /\ \A k \in DOMAIN SplitIsbns(row[4]) :
               ~Carried(file.rows, SplitIsbns(row[4])[k]) =>
                 \E w \in DOMAIN warnings : warnings[w] = <<row[3], SplitIsbns(row[4])[k]>>
          /\ BorrowedIsbns(books, members[MemberOfRow(file.rows, i)])
               = CarriedOnly(file.rows, SplitIsbns(row[4]))

\* Files without a blank line and without two member rows of one member_id
C14_NoBlankNoDuplicateMember ==
  /\ \A i \in 2..Len(file.rows) : file.rows[i] # <<>>
  /\ \A i, j \in 2..Len(file.rows) :
       (IsMemberRow(file.rows[i]) /\ IsMemberRow(file.rows[j])
          /\ file.rows[i][2] = file.rows[j][2]) => i = j

\* C14 holds for those files
C14_DanglingOnLoadOtherwise == C14_NoBlankNoDuplicateMember => C14_DanglingOnLoad

\* C15: No error escapes the store.  Constructing the Librarian (load) and
\* calling add_book, add_member, borrow_book or return_book never lets an
\* error reach the caller, also when reading or writing data.csv fails (the
\* file is missing and the header cannot be written, a read error, a write
\* error): the caller only sees a success or a failure outcome.
C15_NoErrorEscapes == pc # "raised"

\* C16: Absent file.  When data.csv does not exist at start-up, load leaves
\* books and members empty and writes a new file; unless that write fails,
\* the only content of the file is the header row.
C16_AbsentFile ==
  [][(pc = "start" /\ ~file.exists) =>
       /\ books' = <<>> /\ members' = <<>>
       /\ last'.op = "load" /\ last'.save \in SaveResults
       /\ last'.save = "ok" => (file' = File(<<HEADERS>>) /\ pc' = "ready")]_vars

\* The store after a start without a file: nothing in memory, the header on disk
C16_Witness ==
  /\ pc = "ready" /\ last.op = "load" /\ last.outcome = "FileNotFoundError"
  /\ last.save = "ok"
  /\ books = <<>> /\ members = <<>>
  /\ file.exists /\ file.rows = <<HEADERS>>

\* C17: No partial state after a failed load.  When reading data.csv fails
\* for a reason other than the file being missing, wherever in the file the
\* read fails (at the header, or at a data row after earlier rows were
\* parsed), books and members are both empty after load.
C17_NoPartialState ==
  (last.op = "load" /\ last.outcome = "error") => (books = <<>> /\ members = <<>>)

\* The rows C18 says are skipped: fewer fields than the type of the row
\* requires (no field at all included), or a type that is not known
C18_Skipped(row) ==
  \/ Len(row) = 0
  \/ /\ Len(row) >= 1
     /\ \/ row[1] = BOOK /\ Len(row) < 5
        \/ row[1] = FICTION_BOOK /\ Len(row) < 6
        \/ row[1] = NON_FICTION_BOOK /\ Len(row) < 6
        \/ row[1] = MEMBER /\ Len(row) < 4
        \/ row[1] \notin {BOOK, FICTION_BOOK, NON_FICTION_BOOK, MEMBER}

\* The data rows without the rows that are skipped
RECURSIVE C18_Kept(_)
C18_Kept(rows) ==
  IF rows = <<>> THEN <<>>
  ELSE IF C18_Skipped(Head(rows)) THEN C18_Kept(Tail(rows))
  ELSE <<Head(rows)>> \o C18_Kept(Tail(rows))

\* C18: Short rows are skipped.  Load skips every data row with fewer fields
\* than its type requires (BOOK < 5, FICTION_BOOK < 6, NON_FICTION_BOOK < 6,
\* MEMBER < 4), a row with no field included, and every row of an unknown
\* type: no error is raised, and the records built from the rows before and
\* after it are those of the file without the skipped rows.
C18_ShortRowsSkipped ==
  (last.op = "load" /\ last.outcome # "FileNotFoundError" /\ file.rows # <<>>) =>
    \A r \in {LoadData(<<Head(file.rows)>> \o C18_Kept(Tail(file.rows)))} :
      /\ last.outcome = "loaded"
      /\ books = r.books
      /\ members = r.members
      /\ warnings = r.warnings

\* C18 holds for the files in which every row has at least one field
C18_ShortRowsSkippedWithFields ==
  (\A i \in 2..Len(file.rows) : file.rows[i] # <<>>) => C18_ShortRowsSkipped

\* C19: Save failure does not roll back.  When the rewrite of data.csv fails
\* during a successful add_book, add_member, borrow_book or return_book, the
\* failure is reported, the change the operation made in memory is kept (the
\* record is appended; the flag and the member's list are updated), and no
\* error reaches the caller.
C19_SaveFailed ==
  /\ last.op \in C12_Mutations /\ last.outcome = "ok"
  /\ last.save \in {"open_failed", "write_failed"}

C19_SaveFailureKeepsChange ==
  C19_SaveFailed =>
    /\ pc = "ready"
    /\ last.op = "add_book" =>
         books # <<>> /\ books[Len(books)].isbn = last.isbn
    /\ last.op = "add_member" =>
         members # <<>> /\ members[Len(members)].member_id = last.member_id
    /\ last.op \in {"borrow_book", "return_book"} =>
         \A b \in {FindBook(books, last.isbn)}, m \in {FindMember(members, last.member_id)} :
           /\ b # 0 /\ m # 0
           /\ last.op = "borrow_book" =>
                /\ books[b].is_borrowed
                /\ members[m].borrowed_books # <<>>
                /\ members[m].borrowed_books[Len(members[m].borrowed_books)] = b
                /\ books = [trail.books EXCEPT ![b].is_borrowed = TRUE]
           /\ last.op = "return_book" =>
                /\ ~books[b].is_borrowed
                /\ b \notin Range(members[m].borrowed_books)

\* A borrow_book whose write failed half-way: the book is borrowed in memory
\* and the file does not say so
C19_Witness ==
  /\ C19_SaveFailed /\ last.op = "borrow_book" /\ last.save = "write_failed"
  /\ \E b \in 1..Len(books) : books[b].isbn = last.isbn /\ books[b].is_borrowed
  /\ file # File(Render(books, members))

\* ------------------------------------------------ runs from an empty store
\* The runs that start without data.csv and in which no write fails; the
\* callers pass the isbns of Isbns, or those of OddIsbns (the shell passes on
\* whatever was typed, the empty string included)
InitEmptyStore ==
  /\ books = <<>>
  /\ members = <<>>
  /\ file = Absent
  /\ pc = "start"
  /\ last = Call("none", EmptyStr, EmptyStr, "none", 0, "none")
  /\ failures = 0
  /\ faulty = FALSE
  /\ warnings = <<>>
  /\ isbn_inputs \in {Isbns, OddIsbns}
  /\ trail = NoTrail

SpecEmptyStore == InitEmptyStore /\ [][Next]_vars

\* The store a fresh Librarian loads from the file as it is now
Reloaded == LoadData(file.rows)

\* Reloaded has the books and members of the running store
C20_SameAfterRestart ==
  /\ Reloaded.outcome = "loaded"
  /\ Reloaded.books = books
  /\ Reloaded.members = members

\* The global borrow invariant (C1) in the reloaded store
C20_InvariantAfterRestart ==
  \A i \in 1..Len(Reloaded.books) :
    Reloaded.books[i].is_borrowed <=>
      Cardinality({m \in 1..Len(Reloaded.members) :
                     i \in Range(Reloaded.members[m].borrowed_books)}) = 1

\* C20: Restart equivalence.  In every state reached from an empty store by
\* add_book, add_member, borrow_book and return_book with no failing save,
\* loading data.csv into a fresh store gives the same books (order, class,
\* fields, is_borrowed) and the same members with the same borrowed_books,
\* and so the global borrow invariant holds in the reloaded store.
C20_RestartEquivalence ==
  pc = "ready" => (C20_SameAfterRestart /\ C20_InvariantAfterRestart)

\* With isbns that are not empty, the reloaded store is the running store
C20_SameAfterRestartPlainIsbns ==
  (pc = "ready" /\ isbn_inputs = Isbns) => C20_SameAfterRestart

\* With such isbns and books that are added with is_borrowed = False, the
\* whole of C20 holds
C20_RestartEquivalenceOtherwise ==
  (pc = "ready" /\ isbn_inputs = Isbns
     /\ \A i \in 1..Len(books) : books[i].is_borrowed => Holders(i) # {})
    => (C20_SameAfterRestart /\ C20_InvariantAfterRestart)

\* The first half of C20 alone, for every isbn: violated by a borrowed book
\* whose isbn is the empty string
C20_SameAfterRestartAnyIsbn == pc = "ready" => C20_SameAfterRestart

\* C21: The second AlreadyBorrowed check is redundant.  In every state
\* reached from an empty store by add_book, add_member, borrow_book and
\* return_book, every book in a member's borrowed_books has is_borrowed
\* set, so borrow_book never fails at its fourth check ("already has ...
\* borrowed"): the third check fires first.  (It holds for books created
\* with is_borrowed = False, and also when add_book is given a book that is
\* already flagged: such a book is never in a list.)
C21_SecondCheckRedundant ==
  /\ \A m \in 1..Len(members) : \A k \in 1..Len(members[m].borrowed_books) :
       books[members[m].borrowed_books[k]].is_borrowed
  /\ last.op = "borrow_book" => last.step # 4

\* A member who holds a book asks for it again and is refused at the third
\* check, in a store where every flagged book is held by a member
C21_Witness ==
  /\ last.op = "borrow_book" /\ last.step = 3
  /\ \E m \in 1..Len(members) :
       /\ m = FindMember(members, last.member_id)
       /\ FindBook(books, last.isbn) \in Range(members[m].borrowed_books)
  /\ \A i \in 1..Len(books) : books[i].is_borrowed => Holders(i) # {}

\* ------------------------------------------------- runs with direct lookups
\* Librarian.find_book called by the user of the class: the result is the
\* book or None, nothing is written
FindBookCall ==
  /\ pc = "ready"
  /\ \E isbn \in isbn_inputs :
       last' = Call("find_book", EmptyStr, isbn,
                    IF FindBook(books, isbn) = 0 THEN "None" ELSE "found",
                    FindBook(books, isbn), "none")
  /\ trail' = NoTrail
  /\ UNCHANGED <<books, members, file, pc, failures, faulty, warnings, isbn_inputs>>

\* Librarian.find_member called by the user of the class
FindMemberCall ==
  /\ pc = "ready"
  /\ \E member_id \in MemberIds :
       last' = Call("find_member", member_id, EmptyStr,
                    IF FindMember(members, member_id) = 0 THEN "None" ELSE "found",
                    FindMember(members, member_id), "none")
  /\ trail' = NoTrail
  /\ UNCHANGED <<books, members, file, pc, failures, faulty, warnings, isbn_inputs>>

NextWithLookups == Next \/ FindBookCall \/ FindMemberCall

SpecWithLookups == Init /\ [][NextWithLookups]_vars

\* C22: Failures and lookups never touch the file.  find_book, find_member,
\* an add_book with an isbn that is in books, an add_member with a
\* member_id that is in members, and every borrow_book or return_book that
\* fails leave data.csv exactly as it was; the file changes only in a call
\* of the four operations that succeeds, and in load without a file.
C22_FailuresLeaveFile ==
  [][/\ last'.op \in {"find_book", "find_member"} => file' = file
     /\ (last'.op = "add_book" /\ \E i \in 1..Len(books) : books[i].isbn = last'.isbn)
          => file' = file
     /\ (last'.op = "add_member"
           /\ \E i \in 1..Len(members) : members[i].member_id = last'.member_id)
          => file' = file
     /\ (last'.op \in {"borrow_book", "return_book"} /\ last'.outcome # "ok")
          => file' = file
     /\ file' # file =>
          \/ last'.op \in C12_Mutations /\ last'.outcome = "ok" /\ last'.save \in SaveResults
          \/ last'.op = "load" /\ ~file.exists]_vars

\* A return_book refused at the fourth check (the member does not hold the
\* borrowed book), with the file as the last successful call wrote it
C22_Witness ==
  /\ last.op = "return_book" /\ last.outcome = "BookNotBorrowedByMemberException"
  /\ file.exists /\ Len(file.rows) >= 3
  /\ file = File(Render(books, members))

====
